---- MODULE Spec2Model ----
(***************************************************************************)
(* State-machine model of scarbatch_io.py: the S3 wrapper class, the       *)
(* filesystem and environment helpers, and the STEP driver under           *)
(* `if __name__ == "__main__"`.                                            *)
(*                                                                         *)
(* Python values are modelled as follows.                                  *)
(*   str    a sequence of one-character strings ("/o" is <<"/","o">>), so  *)
(*          that replace, basename, unquote_plus and the shell's word      *)
(*          splitting are computed character by character;                 *)
(*   dict   a function whose DOMAIN is the set of keys;                    *)
(*   list   a sequence;                                                    *)
(*   None   the empty value <<>>: every place of the module that can hold  *)
(*          None only tests it for truth or subscripts it;                 *)
(*   object its attribute dictionary (hasattr is membership in DOMAIN).    *)
(***************************************************************************)
EXTENDS Integers, Sequences, FiniteSets, TLC

VARIABLES
    environ,          \* os.environ: variable name -> str
    fs,               \* local filesystem: path -> [type, content, exec]
    store,            \* object store: <<bucket, key>> -> [body, acl]
    lambda_instance,  \* the invocation context handed to S3(...), or None
    self,             \* attribute dictionary of the S3 instance
    handles,          \* boto3 handles constructed so far ("client" / "resource"), in order
    calls,            \* object-store requests issued so far, in order
    uploads,          \* one record per upload_file invocation, in order
    invs,             \* one record per public operation invoked on the wrapper
    ret,              \* value returned by the last operation (None if it raised)
    error,            \* exception that ended the last operation / the run, or "none"
    warnings,         \* number of records written by logger.warning
    log_level,        \* level set on the root logger
    pc                \* position of the program

vars == <<environ, fs, store, lambda_instance, self, handles, calls, uploads,
          invs, ret, error, warnings, log_level, pc>>

------------------------------------------------------------------------------
(* Bounds of the model *)

\* Largest number of notification records in an event.
MaxRecords == 2
\* Largest number of operations invoked on one wrapper instance.
MaxOps == 2

------------------------------------------------------------------------------
(* Python built-ins and library functions used by the module *)

None == <<>>

\* Truth value of a str, list, dict or None.
Truthy(x) == DOMAIN x # {}

SLASH == "/"
SPACE == " "
\* The folder label of the default key convention.
OUTPUT == <<"o", "u", "t", "p", "u", "t">>

\* str.replace(old, new) for a non-empty old: leftmost, non-overlapping, ALL occurrences.
RECURSIVE Replace(_, _, _)
Replace(s, old, new) ==
    IF Len(s) < Len(old) THEN s
    ELSE IF SubSeq(s, 1, Len(old)) = old
         THEN new \o Replace(SubSeq(s, Len(old) + 1, Len(s)), old, new)
         ELSE <<s[1]>> \o Replace(Tail(s), old, new)

\* Index of the last "/" of p, 0 if there is none.
LastSlash(p) ==
    LET I == {i \in 1..Len(p) : p[i] = SLASH}
    IN  IF I = {} THEN 0 ELSE CHOOSE i \in I : \A j \in I : j <= i

\* os.path.basename: what follows the last "/".
basename(p) == SubSeq(p, LastSlash(p) + 1, Len(p))

\* Strip trailing slashes of a directory part, unless it is all slashes.
RECURSIVE RStripSlash(_)
RStripSlash(h) ==
    IF h # <<>> /\ h[Len(h)] = SLASH /\ (\E i \in 1..Len(h) : h[i] # SLASH)
    THEN RStripSlash(SubSeq(h, 1, Len(h) - 1))
    ELSE h

\* os.path.dirname: what precedes the last "/", trailing slashes stripped.
dirname(p) == RStripSlash(SubSeq(p, 1, LastSlash(p)))

\* os.path.join of two segments (posixpath).
join_paths(a, b) ==
    IF b # <<>> /\ b[1] = SLASH THEN b
    ELSE IF a = <<>> \/ a[Len(a)] = SLASH THEN a \o b
    ELSE a \o <<SLASH>> \o b

\* Value of a two-digit hexadecimal escape of urllib.parse (those over the model's alphabet).
HexPairs == {<<"2", "0">>, <<"2", "F">>, <<"2", "B">>}
HexChar(h) == IF h = <<"2", "0">> THEN SPACE ELSE IF h = <<"2", "F">> THEN SLASH ELSE "+"

\* urllib.parse.unquote: %XX -> character, anything else unchanged.
RECURSIVE unquote(_)
unquote(s) ==
    IF s = <<>> THEN <<>>
    ELSE IF s[1] = "%" /\ Len(s) >= 3 /\ SubSeq(s, 2, 3) \in HexPairs
         THEN <<HexChar(SubSeq(s, 2, 3))>> \o unquote(SubSeq(s, 4, Len(s)))
         ELSE <<s[1]>> \o unquote(Tail(s))

\* urllib.parse.unquote_plus: "+" -> " " first, then unquote.
unquote_plus(s) == unquote(Replace(s, <<"+">>, <<SPACE>>))

\* "{0}/{1}".format(a, b)
Fmt2(a, b) == a \o <<SLASH>> \o b
\* "{0}/{1}/{2}".format(a, b, c)
Fmt3(a, b, c) == a \o <<SLASH>> \o b \o <<SLASH>> \o c
\* "{0}/{1}/{2}/{3}".format(a, b, c, d)
Fmt4(a, b, c, d) == a \o <<SLASH>> \o b \o <<SLASH>> \o c \o <<SLASH>> \o d

------------------------------------------------------------------------------
(* Local filesystem *)

IsFile(f, p) == p \in DOMAIN f /\ f[p].type = "file"
isdir(f, p) == p \in DOMAIN f /\ f[p].type = "dir"

DirEntry == [type |-> "dir", content |-> <<>>, exec |-> TRUE]

\* A directory path and every directory above it ("/a/b" -> {"/a/b", "/a"}).
RECURSIVE Ancestors(_)
Ancestors(d) ==
    IF d = <<>> \/ LastSlash(d) = 0 \/ dirname(d) = d THEN {}
    ELSE {d} \cup Ancestors(dirname(d))

\* os.makedirs(d, exist_ok=True) succeeds unless a component is a regular file.
makedirs_ok(f, d) == \A a \in Ancestors(d) : ~IsFile(f, a)
makedirs(f, d) ==
    [p \in DOMAIN f \cup Ancestors(d) |-> IF p \in DOMAIN f THEN f[p] ELSE DirEntry]

\* open(p, "w") / open(p, "wb") succeeds when the parent is a directory and p is not one.
open_w_ok(f, p) == isdir(f, dirname(p)) /\ ~isdir(f, p)
\* The file is created (mode 0666 less the umask: not executable) or truncated (mode kept).
open_w(f, p) ==
    [q \in DOMAIN f \cup {p} |->
        IF q # p THEN f[q]
        ELSE [type |-> "file", content |-> <<>>,
              exec |-> IF p \in DOMAIN f THEN f[p].exec ELSE FALSE]]

write(f, p, data) == [f EXCEPT ![p].content = data]

\* The order in which a directory's entries are listed (os.scandir order: arbitrary but fixed).
RECURSIVE Listed(_)
Listed(S) ==
    IF S = {} THEN <<>>
    ELSE LET x == CHOOSE x \in S : TRUE IN <<x>> \o Listed(S \ {x})

RECURSIVE Flatten(_)
Flatten(ss) == IF ss = <<>> THEN <<>> ELSE Head(ss) \o Flatten(Tail(ss))

\* Names of the entries of kind t directly inside directory d.
EntryNames(f, d, t) ==
    {basename(p) : p \in {q \in DOMAIN f : q # d /\ dirname(q) = d /\ f[q].type = t}}

\* get_all_files_in_directory: os.walk top-down; per directory its file names joined to
\* the directory name, then the sub-directories in turn.
RECURSIVE get_all_files_in_directory(_, _)
get_all_files_in_directory(f, dir_path) ==
    IF ~isdir(f, dir_path) THEN <<>>
    ELSE LET filenames == Listed(EntryNames(f, dir_path, "file"))
             dirnames == Listed(EntryNames(f, dir_path, "dir"))
         IN  [i \in 1..Len(filenames) |-> join_paths(dir_path, filenames[i])]
             \o Flatten([i \in 1..Len(dirnames) |->
                    get_all_files_in_directory(f, join_paths(dir_path, dirnames[i]))])

------------------------------------------------------------------------------
(* Environment and dictionary helpers *)

\* Variant of is_value_in_dict without the truth test: an empty value counts as present.
is_value_in_dict_key_only(dictionary, value) == value \in DOMAIN dictionary

\* is_value_in_dict: the key is there and its value is truthy.
is_value_in_dict(dictionary, value) ==
    value \in DOMAIN dictionary /\ Truthy(dictionary[value])

is_variable_in_environment(env, variable) == is_value_in_dict(env, variable)

get_environment_variable(env, variable) ==
    IF is_variable_in_environment(env, variable) THEN env[variable] ELSE None

------------------------------------------------------------------------------
(* class S3.  Each method maps the state it runs in to the state it leaves; a   *)
(* state is a record of the variables a method can touch.  A method that raises *)
(* leaves the name of the exception in .error and stops there.                  *)

State ==
    [self |-> self, handles |-> handles, calls |-> calls, uploads |-> uploads,
     store |-> store, fs |-> fs, warnings |-> warnings, ret |-> None,
     error |-> "none", inv |-> Len(invs) + 1]

raise(st, exc) == [st EXCEPT !.error = exc, !.ret = None]

setattr(st, name, value) == [st EXCEPT !.self = (name :> value) @@ @]
hasattr(st, name) == name \in DOMAIN st.self

\* Variant of client without the hasattr test: a new handle at every evaluation.
client_uncached(st) ==
    setattr([st EXCEPT !.handles = Append(@, "client")], "_lazy_client", Len(st.handles) + 1)

\* lazy_property applied to client(): boto3.client('s3') is built when the instance has
\* no _lazy_client attribute yet and is kept in that attribute.
client(st) ==
    IF ~hasattr(st, "_lazy_client")
    THEN setattr([st EXCEPT !.handles = Append(@, "client")],
                 "_lazy_client", Len(st.handles) + 1)
    ELSE st

\* boto3.resource('s3'): a new handle at every evaluation.
resource(st) == [st EXCEPT !.handles = Append(@, "resource")]

\* An object-store request, logged with the handle it goes through and the upload_file
\* invocation (0 if none) and the operation it belongs to.
Call(st, up, op, via, bucket, key, ok) ==
    [st EXCEPT !.calls = Append(@, [inv |-> st.inv, up |-> up, op |-> op, via |-> via,
                                    bucket |-> bucket, key |-> key, ok |-> ok])]

\* Variant of get_s3_record that takes the last record instead of the first.
get_s3_record_last(st) ==
    LET Records == st.self["lambda_instance"].event["Records"]
        s1 == IF Len(Records) > 1 THEN [st EXCEPT !.warnings = @ + 1] ELSE st
        record == Records[Len(Records)]
    IN  [s1 EXCEPT !.ret = IF "s3" \in DOMAIN record THEN record["s3"] ELSE None]

\* get_s3_record: warns when there is more than one record; the "s3" value of the first
\* record, or None (the function falls off its end) when the record has none.
get_s3_record(st) ==
    LET Records == st.self["lambda_instance"].event["Records"]
        s1 == IF Len(Records) > 1 THEN [st EXCEPT !.warnings = @ + 1] ELSE st
        record == Records[1]
    IN  [s1 EXCEPT !.ret = IF is_value_in_dict(record, "s3") THEN record["s3"] ELSE None]

\* S3.__init__
S3__init__(st, li) ==
    IF ~Truthy(li) THEN st
    ELSE LET s1 == setattr(st, "lambda_instance", li) IN
         IF ~is_value_in_dict(li.event, "Records") THEN s1
         ELSE LET s2 == get_s3_record(s1)
                  s3 == setattr([s2 EXCEPT !.ret = None], "record", s2.ret) IN
              IF ~Truthy(s2.ret) THEN raise(s3, "TypeError")   \* None['bucket']
              ELSE LET input_bucket == s2.ret["bucket"]["name"]
                       file_key == unquote_plus(s2.ret["object"]["key"])
                       file_name == Replace(basename(file_key), <<SPACE>>, <<>>)
                   IN  setattr(setattr(setattr(setattr(s3,
                           "input_bucket", input_bucket),
                           "file_key", file_key),
                           "file_name", file_name),
                           "file_download_path", Fmt2(li.input_folder, file_name))

\* S3.download_input.  transport_ok: whether the transfer itself goes through.
download_input(st, transport_ok) ==
    IF ~hasattr(st, "input_bucket") THEN raise(st, "AttributeError")
    ELSE LET path == st.self["file_download_path"]
             bucket == st.self["input_bucket"]
             key == st.self["file_key"]
             need == ~isdir(st.fs, path)
         IN  IF need /\ ~makedirs_ok(st.fs, dirname(path)) THEN raise(st, "FileExistsError")
             ELSE LET s1 == IF need THEN [st EXCEPT !.fs = makedirs(@, dirname(path))] ELSE st IN
                  IF ~open_w_ok(s1.fs, path) THEN raise(s1, "OSError")
                  ELSE LET s2 == client([s1 EXCEPT !.fs = open_w(@, path)])
                           ok == transport_ok /\ <<bucket, key>> \in DOMAIN s2.store
                           s3 == Call(s2, 0, "download_fileobj", s2.self["_lazy_client"],
                                      bucket, key, ok)
                       IN  IF ~ok THEN raise(s3, "ClientError")
                           ELSE [s3 EXCEPT !.fs = write(@, path, s3.store[<<bucket, key>>].body),
                                           !.ret = path]

\* S3.get_file_key
get_file_key(st, function_name, folder, file_name) ==
    LET request_id == st.self["lambda_instance"].request_id IN
    IF Truthy(function_name)
    THEN Fmt4(function_name, folder, request_id, file_name)
    ELSE Fmt3(folder, request_id, file_name)

\* Variant of upload_file that updates the ACL in a cleanup path, whether or not the
\* transfer went through.
upload_file_acl_always(st, bucket_name, file_path, file_key, outcome) ==
    LET n == Len(st.uploads) + 1
        entry == [inv |-> st.inv, bucket |-> bucket_name, path |-> file_path,
                  key |-> file_key, error |-> "none", present |-> FALSE]
        s0 == [st EXCEPT !.uploads = Append(@, entry)]
        fails(s, exc) == raise([s EXCEPT !.uploads[n].error = exc,
                                         !.uploads[n].present =
                                             <<bucket_name, file_key>> \in DOMAIN s.store], exc)
    IN  IF ~IsFile(s0.fs, file_path) THEN fails(s0, "FileNotFoundError")
        ELSE LET s1 == client(s0)
                 s2 == Call(s1, n, "upload_fileobj", s1.self["_lazy_client"],
                            bucket_name, file_key, outcome # "upload_fails")
                 obj == [body |-> s2.fs[file_path].content, acl |-> "private"]
                 s3 == resource(IF outcome = "upload_fails" THEN s2
                                ELSE [s2 EXCEPT !.store = (<<bucket_name, file_key>> :> obj) @@ @])
                 s4 == Call(s3, n, "put_acl", Len(s3.handles), bucket_name, file_key,
                            outcome = "ok")
             IN  IF outcome # "ok" THEN fails(s4, "ClientError")
                 ELSE [s4 EXCEPT !.store[<<bucket_name, file_key>>].acl = "public-read",
                                 !.uploads[n].present = TRUE]

\* S3.upload_file.  outcome: "ok", or which of the two requests the store rejects.
upload_file(st, bucket_name, file_path, file_key, outcome) ==
    LET n == Len(st.uploads) + 1
        entry == [inv |-> st.inv, bucket |-> bucket_name, path |-> file_path,
                  key |-> file_key, error |-> "none", present |-> FALSE]
        s0 == [st EXCEPT !.uploads = Append(@, entry)]
        fails(s, exc) == raise([s EXCEPT !.uploads[n].error = exc,
                                         !.uploads[n].present =
                                             <<bucket_name, file_key>> \in DOMAIN s.store], exc)
    IN  IF ~IsFile(s0.fs, file_path) THEN fails(s0, "FileNotFoundError")
        ELSE LET s1 == client(s0)
                 s2 == Call(s1, n, "upload_fileobj", s1.self["_lazy_client"],
                            bucket_name, file_key, outcome # "upload_fails")
             IN  IF outcome = "upload_fails" THEN fails(s2, "ClientError")
                 ELSE LET obj == [body |-> s2.fs[file_path].content, acl |-> "private"]
                          s3 == resource([s2 EXCEPT !.store =
                                    (<<bucket_name, file_key>> :> obj) @@ @])
                          s4 == Call(s3, n, "put_acl", Len(s3.handles),
                                     bucket_name, file_key, outcome # "acl_fails")
                      IN  IF outcome = "acl_fails" THEN fails(s4, "ClientError")
                          ELSE [s4 EXCEPT
                                  !.store[<<bucket_name, file_key>>].acl = "public-read",
                                  !.uploads[n].present = TRUE]

\* The loop of S3.upload_output over output_files_path[i..]; outs[i] is the outcome of the
\* i-th upload_file, and an exception leaves the loop.
RECURSIVE upload_loop(_, _, _, _, _, _)
upload_loop(st, output_files_path, i, bucket_name, bucket_folder, outs) ==
    IF i > Len(output_files_path) \/ st.error # "none" THEN st
    ELSE LET li == st.self["lambda_instance"]
             file_path == output_files_path[i]
             file_name == Replace(file_path, li.output_folder \o <<SLASH>>, <<>>)
             file_key == IF Truthy(bucket_folder)
                         THEN get_file_key(st, None, bucket_folder, file_name)
                         ELSE get_file_key(st, li.function_name, OUTPUT, file_name)
         IN  upload_loop(upload_file(st, bucket_name, file_path, file_key, outs[i]),
                         output_files_path, i + 1, bucket_name, bucket_folder, outs)

\* S3.upload_output
upload_output(st, bucket_name, bucket_folder, outs) ==
    IF ~hasattr(st, "lambda_instance") THEN raise(st, "AttributeError")
    ELSE upload_loop(st,
            get_all_files_in_directory(st.fs, st.self["lambda_instance"].output_folder),
            1, bucket_name, bucket_folder, outs)

\* S3.download_file_to_memory
download_file_to_memory(st, bucket_name, file_key, transport_ok) ==
    LET s1 == resource(st)
        ok == transport_ok /\ <<bucket_name, file_key>> \in DOMAIN s1.store
        s2 == Call(s1, 0, "get_object", Len(s1.handles), bucket_name, file_key, ok)
    IN  IF ~ok THEN raise(s2, "ClientError")
        ELSE [s2 EXCEPT !.ret = s2.store[<<bucket_name, file_key>>].body]

\* S3.delete_file: self.client is evaluated before the arguments are.
delete_file(st, transport_ok) ==
    LET s1 == client(st) IN
    IF ~hasattr(s1, "input_bucket") THEN raise(s1, "AttributeError")
    ELSE LET bucket == s1.self["input_bucket"]
             key == s1.self["file_key"]
             s2 == Call(s1, 0, "delete_object", s1.self["_lazy_client"], bucket, key,
                        transport_ok)
         IN  IF ~transport_ok THEN raise(s2, "ClientError")
             ELSE [s2 EXCEPT !.store = [o \in DOMAIN @ \ {<<bucket, key>>} |-> @[o]]]

------------------------------------------------------------------------------
(* The STEP driver's functions *)

\* Words of a shell command line: split at runs of spaces (no quoting is applied).
RECURSIVE ShellWords(_, _)
ShellWords(cmd, word) ==
    IF cmd = <<>> THEN (IF word = <<>> THEN <<>> ELSE <<word>>)
    ELSE IF cmd[1] = SPACE
         THEN (IF word = <<>> THEN <<>> ELSE <<word>>) \o ShellWords(Tail(cmd), <<>>)
         ELSE ShellWords(Tail(cmd), Append(word, cmd[1]))

CHMOD == <<"c", "h", "m", "o", "d">>
PLUSX == <<"+", "x">>
SCRIPT_SH == <<"s", "c", "r", "i", "p", "t", ".", "s", "h">>

\* os.system(cmd) for a "chmod +x ..." line: every operand that names an existing entry
\* becomes executable, the others are reported by chmod and skipped; the exit status is
\* dropped by the caller.
os_system(f, cmd) ==
    LET argv == ShellWords(cmd, <<>>)
        operands == {argv[i] : i \in 3..Len(argv)}
    IN  IF Len(argv) >= 2 /\ argv[1] = CHMOD /\ argv[2] = PLUSX
        THEN [p \in DOMAIN f |-> IF p \in operands THEN [f[p] EXCEPT !.exec = TRUE] ELSE f[p]]
        ELSE f

\* create_user_script
create_user_script(st, env) ==
    IF "SCAR_INPUT_DIR" \notin DOMAIN env THEN raise(st, "KeyError")
    ELSE LET script_path == join_paths(env["SCAR_INPUT_DIR"], SCRIPT_SH) IN
         IF ~open_w_ok(st.fs, script_path) THEN raise(st, "OSError")
         ELSE LET s1 == [st EXCEPT !.fs = open_w(@, script_path)] IN
              IF "SCRIPT" \notin DOMAIN env THEN raise(s1, "KeyError")
              ELSE LET s2 == [s1 EXCEPT !.fs = write(@, script_path, env["SCRIPT"])] IN
                   [s2 EXCEPT !.fs = os_system(@, CHMOD \o <<SPACE>> \o PLUSX \o <<SPACE>>
                                                  \o script_path)]

\* The names class S3 defines.
S3Attributes ==
    {"client", "get_s3_record", "download_input", "get_file_key", "upload_output",
     "upload_file", "download_file_to_memory", "delete_file"}

\* Attribute lookup on an S3 instance fails when neither the instance nor the class has it.
lookup_fails(st, name) == name \notin S3Attributes /\ ~hasattr(st, name)

\* manage_input_bucket: S3() without a context, then its download_bucket attribute.
manage_input_bucket(st, env) ==
    IF ~is_variable_in_environment(env, "INPUT_BUCKET") THEN st
    ELSE LET s1 == S3__init__([st EXCEPT !.self = <<>>], None) IN
         IF lookup_fails(s1, "download_bucket") THEN raise(s1, "AttributeError") ELSE s1

\* manage_output_bucket: S3() without a context, then its uploadDirectory attribute.
manage_output_bucket(st, env) ==
    IF ~is_variable_in_environment(env, "OUTPUT_BUCKET") THEN st
    ELSE LET s1 == S3__init__([st EXCEPT !.self = <<>>], None) IN
         IF lookup_fails(s1, "uploadDirectory") THEN raise(s1, "AttributeError") ELSE s1

\* set_log_level: the level the root logger is given.
INFO == <<"I", "N", "F", "O">>
DEBUG == <<"D", "E", "B", "U", "G">>
WARNING == <<"W", "A", "R", "N", "I", "N", "G">>
set_log_level(env) ==
    IF is_variable_in_environment(env, "LOG_LEVEL")
    THEN get_environment_variable(env, "LOG_LEVEL")
    ELSE INFO

------------------------------------------------------------------------------
(* Inputs of the model *)

B1 == <<"b", "1">>
B2 == <<"b", "2">>
OutputBucket == <<"o", "b">>
\* Object keys as they come URL-encoded in a notification: "d/a+b" and "%20k".
KeyEnc1 == <<"d", "/", "a", "+", "b">>
KeyEnc2 == <<"%", "2", "0", "k">>
Key1 == <<"d", "/", "a", SPACE, "b">>
KeyK == <<"k">>
InputFolder == <<"/", "i", "n">>
OutputFolder == <<"/", "o">>
RequestId == <<"r", "1">>
FunctionName == <<"f", "n">>
BucketFolder == <<"r", "e", "s">>

S3Record(bucket, key) ==
    [s3 |-> [bucket |-> [name |-> bucket], object |-> [key |-> key]]]
\* A record of another event source: it has no "s3" entry.
OtherRecord == [eventSource |-> <<"s", "q", "s">>]
RecordPool == {S3Record(B1, KeyEnc1), S3Record(B2, KeyEnc2), OtherRecord}

RecordLists == UNION {[1..n -> RecordPool] : n \in 1..MaxRecords}
Events == {[body |-> <<"x">>], [Records |-> <<>>]} \cup {[Records |-> rs] : rs \in RecordLists}

Context(event) ==
    [event |-> event, input_folder |-> InputFolder, output_folder |-> OutputFolder,
     request_id |-> RequestId, function_name |-> FunctionName]

FileEntry(content, exec) == [type |-> "file", content |-> content, exec |-> exec]

PathAB == <<"/", "o", "/", "a", "b">>
PathAOB == <<"/", "o", "/", "a", "/", "o", "/", "b">>
PathC == <<"/", "o", "/", "c">>

\* Output trees: /o/ab beside /o/a/o/b (and an existing /in); /o/c beside an empty
\* directory /o/e (and no /in yet).
Tree1 ==
    (InputFolder :> DirEntry) @@ (OutputFolder :> DirEntry)
    @@ (<<"/", "o", "/", "a">> :> DirEntry) @@ (<<"/", "o", "/", "a", "/", "o">> :> DirEntry)
    @@ (PathAB :> FileEntry(<<"1">>, FALSE)) @@ (PathAOB :> FileEntry(<<"2">>, FALSE))
Tree2 ==
    (OutputFolder :> DirEntry) @@ (<<"/", "o", "/", "e">> :> DirEntry)
    @@ (PathC :> FileEntry(<<"3">>, FALSE))
Trees == {Tree1, Tree2}

\* The object the first notification is about exists; the second one's does not.
Store0 == (<<B1, Key1>> :> [body |-> <<"x">>, acl |-> "private"])

Outcomes == {"ok", "upload_fails", "acl_fails"}

\* Outcomes of the successive upload_file calls of one upload_output: all accepted, or the
\* k-th rejected in one of the two ways.
OutcomeLists(n) ==
    {[i \in 1..n |-> "ok"]}
    \cup {[i \in 1..n |-> IF i = k THEN o ELSE "ok"] :
             k \in 1..n, o \in Outcomes \ {"ok"}}

------------------------------------------------------------------------------
(* The wrapper used as a library: S3(lambda_instance), then operations on it *)

Commit(st) ==
    /\ self' = st.self
    /\ handles' = st.handles
    /\ calls' = st.calls
    /\ uploads' = st.uploads
    /\ store' = st.store
    /\ fs' = st.fs
    /\ warnings' = st.warnings
    /\ ret' = st.ret
    /\ error' = st.error

Invoked(st, method, args, listing) ==
    invs' = Append(invs, [method |-> method, args |-> args, listing |-> listing,
                          error |-> st.error])

InitS3 ==
    /\ environ = <<>>
    /\ fs \in Trees
    /\ store = Store0
    /\ lambda_instance \in {None} \cup {Context(e) : e \in Events}
    /\ self = <<>>
    /\ handles = <<>>
    /\ calls = <<>>
    /\ uploads = <<>>
    /\ invs = <<>>
    /\ ret = None
    /\ error = "none"
    /\ warnings = 0
    /\ log_level = WARNING
    /\ pc = "new"

Construct ==
    /\ pc = "new"
    /\ LET st == S3__init__(State, lambda_instance) IN
         /\ Commit(st)
         /\ pc' = IF st.error = "none" THEN "ready" ELSE "failed"
    /\ UNCHANGED <<environ, lambda_instance, invs, log_level>>

CanInvoke == pc = "ready" /\ Len(invs) < MaxOps

DownloadInput ==
    /\ CanInvoke
    /\ \E transport_ok \in BOOLEAN :
         LET st == download_input(State, transport_ok) IN
           Commit(st) /\ Invoked(st, "download_input", <<>>, <<>>)
    /\ UNCHANGED <<environ, lambda_instance, log_level, pc>>

UploadOutput ==
    /\ CanInvoke
    /\ \E bucket_folder \in {None, BucketFolder} :
         LET listing == IF "lambda_instance" \in DOMAIN self
                        THEN get_all_files_in_directory(fs, self["lambda_instance"].output_folder)
                        ELSE <<>>
         IN  \E outs \in OutcomeLists(Len(listing)) :
               LET st == upload_output(State, OutputBucket, bucket_folder, outs) IN
                 Commit(st)
                 /\ Invoked(st, "upload_output", <<OutputBucket, bucket_folder>>, listing)
    /\ UNCHANGED <<environ, lambda_instance, log_level, pc>>

UploadFile ==
    /\ CanInvoke
    /\ \E file_path \in {PathAB, PathC}, outcome \in Outcomes :
         LET st == upload_file(State, OutputBucket, file_path, KeyK, outcome) IN
           Commit(st) /\ Invoked(st, "upload_file", <<OutputBucket, file_path, KeyK>>, <<>>)
    /\ UNCHANGED <<environ, lambda_instance, log_level, pc>>

DownloadFileToMemory ==
    /\ CanInvoke
    /\ \E target \in {<<OutputBucket, KeyK>>, <<B1, Key1>>}, transport_ok \in BOOLEAN :
         LET st == download_file_to_memory(State, target[1], target[2], transport_ok) IN
           Commit(st) /\ Invoked(st, "download_file_to_memory", target, <<>>)
    /\ UNCHANGED <<environ, lambda_instance, log_level, pc>>

DeleteFile ==
    /\ CanInvoke
    /\ \E transport_ok \in BOOLEAN :
         LET st == delete_file(State, transport_ok) IN
           Commit(st) /\ Invoked(st, "delete_file", <<>>, <<>>)
    /\ UNCHANGED <<environ, lambda_instance, log_level, pc>>

NextS3 ==
    \/ Construct
    \/ DownloadInput
    \/ UploadOutput
    \/ UploadFile
    \/ DownloadFileToMemory
    \/ DeleteFile

SpecS3 == InitS3 /\ [][NextS3]_vars

------------------------------------------------------------------------------
(* The module run as a script: the body of `if __name__ == "__main__"` *)

INIT == <<"I", "N", "I", "T">>
END == <<"E", "N", "D">>
RUN == <<"R", "U", "N">>
Script == <<"l", "s">>
OldScript == <<"o", "l", "d">>
InDirPlain == <<"/", "i", "n">>
InDirSpace == <<"/", "m", "y", SPACE, "i", "n">>

\* A variable that may be unset, set to the empty string, or set to val.
Optional(name, val) == {<<>>, name :> <<>>, name :> val}

\* What is at {SCAR_INPUT_DIR}/script.sh before the run: nothing, or an older script.
ScriptBefore(dir) ==
    {<<>>} \cup {join_paths(dir, SCRIPT_SH) :> FileEntry(OldScript, x) : x \in BOOLEAN}

InitMain ==
    /\ \E step \in {INIT, END, RUN}, script \in {<<>>, Script},
          dir \in {InDirPlain, InDirSpace}, tree \in Trees :
         /\ \E ll \in {<<>>, "LOG_LEVEL" :> DEBUG},
               ib \in Optional("INPUT_BUCKET", B1),
               ob \in Optional("OUTPUT_BUCKET", OutputBucket) :
              environ = ("STEP" :> step) @@ ("SCRIPT" :> script)
                        @@ ("SCAR_INPUT_DIR" :> dir)
                        @@ ("SCAR_OUTPUT_DIR" :> OutputFolder) @@ ll @@ ib @@ ob
         /\ \E before \in ScriptBefore(dir) :
              fs = before @@ (dir :> DirEntry) @@ tree
    /\ store = Store0
    /\ lambda_instance = None
    /\ self = <<>>
    /\ handles = <<>>
    /\ calls = <<>>
    /\ uploads = <<>>
    /\ invs = <<>>
    /\ ret = None
    /\ error = "none"
    /\ warnings = 0
    /\ log_level = WARNING
    /\ pc = "set_log_level"

\* An uncaught exception ends the process; otherwise the run goes on at `next`.
Goto(st, next) == pc' = IF st.error = "none" THEN next ELSE "exit"

SetLogLevel ==
    /\ pc = "set_log_level"
    /\ log_level' = set_log_level(environ)
    /\ pc' = "step"
    /\ UNCHANGED <<environ, fs, store, lambda_instance, self, handles, calls, uploads,
                   invs, ret, error, warnings>>

\* step = os.environ['STEP'] and the if / elif on it.
ReadStep ==
    /\ pc = "step"
    /\ IF "STEP" \notin DOMAIN environ
       THEN error' = "KeyError" /\ pc' = "exit"
       ELSE /\ error' = error
            /\ pc' = IF environ["STEP"] = INIT THEN "create_user_script"
                     ELSE IF environ["STEP"] = END THEN "manage_output_bucket"
                     ELSE "exit"
    /\ UNCHANGED <<environ, fs, store, lambda_instance, self, handles, calls, uploads,
                   invs, ret, warnings, log_level>>

CreateUserScript ==
    /\ pc = "create_user_script"
    /\ LET st == create_user_script(State, environ) IN
         Commit(st) /\ Goto(st, "manage_input_bucket")
    /\ UNCHANGED <<environ, lambda_instance, invs, log_level>>

ManageInputBucket ==
    /\ pc = "manage_input_bucket"
    /\ LET st == manage_input_bucket(State, environ) IN
         Commit(st) /\ Goto(st, "exit")
    /\ UNCHANGED <<environ, lambda_instance, invs, log_level>>

ManageOutputBucket ==
    /\ pc = "manage_output_bucket"
    /\ LET st == manage_output_bucket(State, environ) IN
         Commit(st) /\ Goto(st, "exit")
    /\ UNCHANGED <<environ, lambda_instance, invs, log_level>>

NextMain ==
    \/ SetLogLevel
    \/ ReadStep
    \/ CreateUserScript
    \/ ManageInputBucket
    \/ ManageOutputBucket

SpecMain == InitMain /\ [][NextMain]_vars

------------------------------------------------------------------------------
(* The module either runs as a script or is imported and its S3 class used *)

Init == InitMain \/ InitS3
Next == NextMain \/ NextS3
Spec == Init /\ [][Next]_vars

------------------------------------------------------------------------------
(* Properties of the script run (checked under SpecMain) *)

\* The environment variable is set to a non-empty value.
EnvSet(name) == name \in DOMAIN environ /\ environ[name] # <<>>

\* Regular files below directory dir, and a path relative to dir.
FilesUnder(f, dir) ==
    {p \in DOMAIN f : /\ f[p].type = "file"
                      /\ Len(p) > Len(dir) + 1
                      /\ SubSeq(p, 1, Len(dir) + 1) = dir \o <<SLASH>>}
RelPath(dir, p) == SubSeq(p, Len(dir) + 2, Len(p))

RunEnded(step) == pc = "exit" /\ environ["STEP"] = step

\* C1: a run with STEP=END and a non-empty OUTPUT_BUCKET ends without error, having
\* uploaded every regular file under the output directory to that bucket under
\* {functionName}/output/{requestId}/{relativeFileName}.
C1_EndUploadsOutputDirectory ==
    (RunEnded(END) /\ EnvSet("OUTPUT_BUCKET")) =>
        /\ error = "none"
        /\ \A p \in FilesUnder(fs, environ["SCAR_OUTPUT_DIR"]) :
             \E i \in DOMAIN calls :
                /\ calls[i].op = "upload_fileobj"
                /\ calls[i].ok
                /\ calls[i].bucket = environ["OUTPUT_BUCKET"]
                /\ calls[i].key = Fmt4(FunctionName, OUTPUT, RequestId,
                                       RelPath(environ["SCAR_OUTPUT_DIR"], p))

\* C2: a run with STEP=INIT and a non-empty INPUT_BUCKET ends without error, having
\* built a wrapper and issued one successful download of the configured object.
C2_InitDownloadsInput ==
    (RunEnded(INIT) /\ EnvSet("INPUT_BUCKET")) =>
        /\ error = "none"
        /\ \E i \in DOMAIN calls : calls[i].op = "download_fileobj" /\ calls[i].ok

\* C5: a run with STEP=END and OUTPUT_BUCKET unset or empty skips the guarded branch of
\* manage_output_bucket: at no point of the run has any object-store request (so no
\* upload and no ACL update) been issued or any handle been built, and the run ends
\* without error, whatever the output directory holds.
C5_NoUploadWithoutOutputBucket ==
    (environ["STEP"] = END /\ ~EnvSet("OUTPUT_BUCKET")) =>
        /\ calls = <<>>
        /\ uploads = <<>>
        /\ handles = <<>>
        /\ error = "none"

\* A finished END run whose OUTPUT_BUCKET is set to the empty string, over a non-empty
\* output directory.
C5_Witness ==
    /\ RunEnded(END)
    /\ "OUTPUT_BUCKET" \in DOMAIN environ
    /\ environ["OUTPUT_BUCKET"] = <<>>
    /\ FilesUnder(fs, environ["SCAR_OUTPUT_DIR"]) # {}

\* C6: once create_user_script of a STEP=INIT run is over, {SCAR_INPUT_DIR}/script.sh
\* exists, holds exactly SCRIPT and is executable; no object-store request was issued
\* before it was written, and it stays so to the end of the run.
C6_ScriptWrittenAndExecutable ==
    (environ["STEP"] = INIT /\ pc \in {"manage_input_bucket", "exit"}) =>
        LET script_path == environ["SCAR_INPUT_DIR"] \o <<SLASH>> \o SCRIPT_SH IN
          /\ IsFile(fs, script_path)
          /\ fs[script_path].content = environ["SCRIPT"]
          /\ fs[script_path].exec
          /\ (pc = "manage_input_bucket" => calls = <<>>)

------------------------------------------------------------------------------
(* Properties of the wrapper (checked under SpecS3) *)

\* The upload_file invocations made by operation i, in order.
UploadsOf(i) == SelectSeq(uploads, LAMBDA u : u.inv = i)

\* Indices in calls of the requests issued by the n-th upload_file invocation.
CallsOfUpload(n) == {c \in DOMAIN calls : calls[c].up = n}

\* C3: within one upload_output, two distinct local files never get the same remote key.
C3_KeysInjective ==
    \A i \in DOMAIN invs :
        invs[i].method = "upload_output" =>
            \A a, b \in DOMAIN uploads :
                (/\ uploads[a].inv = i
                 /\ uploads[b].inv = i
                 /\ uploads[a].path # uploads[b].path) => uploads[a].key # uploads[b].key

\* C4: an upload_output that ends without error has issued exactly one upload per regular
\* file under the output directory, in listing order, never for a directory, each under
\* {bucketFolder}/{requestId}/{rel} when a bucket folder is given and under
\* {functionName}/output/{requestId}/{rel} otherwise, rel being the file's path relative
\* to the output directory.
C4_OneUploadPerFileUnderConventionKey ==
    \A i \in DOMAIN invs :
        (invs[i].method = "upload_output" /\ invs[i].error = "none") =>
            LET us == UploadsOf(i)
                li == lambda_instance
                folder == invs[i].args[2]
                files == FilesUnder(fs, li.output_folder)
            IN  /\ Len(us) = Cardinality(files)
                /\ {us[k].path : k \in DOMAIN us} = files
                /\ \A k \in DOMAIN us :
                     /\ us[k].path = invs[i].listing[k]
                     /\ us[k].bucket = invs[i].args[1]
                     /\ us[k].key =
                          IF folder # <<>>
                          THEN Fmt3(folder, li.request_id, RelPath(li.output_folder, us[k].path))
                          ELSE Fmt4(li.function_name, OUTPUT, li.request_id,
                                    RelPath(li.output_folder, us[k].path))
                /\ \A n \in DOMAIN uploads :
                     uploads[n].inv = i =>
                        Cardinality({c \in CallsOfUpload(n) :
                                        calls[c].op = "upload_fileobj"}) = 1

\* The event holds at least one record and the first is an object-store notification.
FirstRecordIsS3 ==
    /\ Truthy(lambda_instance)
    /\ "Records" \in DOMAIN lambda_instance.event
    /\ Len(lambda_instance.event["Records"]) >= 1
    /\ "s3" \in DOMAIN lambda_instance.event["Records"][1]

TargetNames == {"input_bucket", "file_key", "file_name", "file_download_path"}

\* What __init__ derives from the event.
Derived(attrs) == [n \in (TargetNames \cup {"record"}) \cap DOMAIN attrs |-> attrs[n]]

\* C7: for an event whose first record is an object-store notification, the constructor
\* raises nothing, takes bucket, key, file name and download path from the first record
\* (when the constructor returns, any event with the same first record gives the same
\* derived attributes), and has logged exactly one warning when there are two or more
\* records and none when there is one.
C7_FirstRecordOnly ==
    (pc # "new" /\ FirstRecordIsS3) =>
        LET Records == lambda_instance.event["Records"]
            first == Records[1]["s3"]
            file_key == unquote_plus(first["object"]["key"])
            file_name == Replace(basename(file_key), <<SPACE>>, <<>>)
            fresh == [State EXCEPT !.self = <<>>, !.warnings = 0]
        IN  /\ pc = "ready"
            /\ warnings = IF Len(Records) >= 2 THEN 1 ELSE 0
            /\ TargetNames \subseteq DOMAIN self
            /\ self["input_bucket"] = first["bucket"]["name"]
            /\ self["file_key"] = file_key
            /\ self["file_name"] = file_name
            /\ self["file_download_path"] = lambda_instance.input_folder \o <<SLASH>> \o file_name
            /\ invs = <<>> =>
                  \A rs \in RecordLists :
                     rs[1] = Records[1] =>
                        Derived(S3__init__(fresh, Context([Records |-> rs])).self)
                            = Derived(self)

\* A wrapper built from two different object-store notifications, with its one warning.
C7_Witness ==
    /\ pc = "ready"
    /\ FirstRecordIsS3
    /\ Len(lambda_instance.event["Records"]) = 2
    /\ "s3" \in DOMAIN lambda_instance.event["Records"][2]
    /\ lambda_instance.event["Records"][2] # lambda_instance.event["Records"][1]
    /\ warnings = 1

\* C8: every upload_file invocation issues at most one upload and at most one ACL update
\* and nothing else; the ACL update comes after a successful upload of the same
\* bucket/key; a failed upload is followed by no ACL update; and when the ACL update
\* fails the error reaches the caller while the object is still in the bucket.
C8_UploadThenAclNoRetryNoRollback ==
    \A n \in DOMAIN uploads :
        LET cs == CallsOfUpload(n)
            ups == {c \in cs : calls[c].op = "upload_fileobj"}
            acls == {c \in cs : calls[c].op = "put_acl"}
        IN  /\ cs = ups \cup acls
            /\ Cardinality(ups) <= 1
            /\ Cardinality(acls) <= 1
            /\ \A c \in cs : calls[c].bucket = uploads[n].bucket /\ calls[c].key = uploads[n].key
            /\ \A a \in acls : \E u \in ups : u < a /\ calls[u].ok
            /\ (\E u \in ups : ~calls[u].ok) => acls = {}
            /\ (\E c \in cs : ~calls[c].ok) =>
                  /\ uploads[n].error # "none"
                  /\ invs[uploads[n].inv].error = uploads[n].error
            /\ (\E a \in acls : ~calls[a].ok) => uploads[n].present
            /\ uploads[n].error = "none" => (ups # {} /\ acls # {} /\ uploads[n].present)

\* An upload_file whose ACL update was rejected after the object went in.
C8_Witness ==
    \E n \in DOMAIN uploads :
        /\ uploads[n].error = "ClientError"
        /\ uploads[n].present
        /\ \E a \in CallsOfUpload(n) : calls[a].op = "put_acl" /\ ~calls[a].ok

\* C9: the constructor never raises; the wrapper holds a download target only when the
\* context has a non-empty Records collection; and on a wrapper without a target,
\* download_input and delete_file end in an error, issue no object-store request and
\* create nothing on the local filesystem.
C9_ConstructNeverRaises ==
    /\ pc # "failed"
    /\ (pc = "ready" /\ TargetNames \cap DOMAIN self # {}) =>
          /\ Truthy(lambda_instance)
          /\ "Records" \in DOMAIN lambda_instance.event
          /\ lambda_instance.event["Records"] # <<>>
    /\ (pc = "ready" /\ TargetNames \cap DOMAIN self = {}) =>
          /\ fs \in Trees
          /\ \A i \in DOMAIN invs :
               invs[i].method \in {"download_input", "delete_file"} =>
                  /\ invs[i].error # "none"
                  /\ \A c \in DOMAIN calls : calls[c].inv # i

ClientOps == {"download_fileobj", "upload_fileobj", "delete_object"}
ResourceOps == {"put_acl", "get_object"}

\* C10 as stated: at most one object-store handle is ever built for the instance and
\* every request goes through it.
C10_OneHandleForEveryCall ==
    /\ Len(handles) <= 1
    /\ \A c \in DOMAIN calls :
         "_lazy_client" \in DOMAIN self /\ calls[c].via = self["_lazy_client"]

\* C10 amended: at most one handle is built through the lazy client property; it is built
\* on first use, kept in the instance, and every download_fileobj, upload_fileobj and
\* delete_object request of every operation goes through it; each ACL update and each
\* in-memory read goes through a resource handle of its own, built for that request.
C10_LazyClientReused ==
    /\ Cardinality({h \in DOMAIN handles : handles[h] = "client"}) <= 1
    /\ "_lazy_client" \in DOMAIN self <=> (\E h \in DOMAIN handles : handles[h] = "client")
    /\ "_lazy_client" \in DOMAIN self => handles[self["_lazy_client"]] = "client"
    /\ \A c \in DOMAIN calls :
         /\ calls[c].op \in ClientOps \cup ResourceOps
         /\ calls[c].op \in ClientOps =>
               "_lazy_client" \in DOMAIN self /\ calls[c].via = self["_lazy_client"]
         /\ calls[c].op \in ResourceOps =>
               /\ handles[calls[c].via] = "resource"
               /\ \A d \in DOMAIN calls : calls[d].via = calls[c].via => d = c

\* Two operations whose client requests share the one client, beside an ACL update that
\* went through a resource handle.
C10_Witness ==
    /\ \E c, d \in DOMAIN calls :
         /\ calls[c].inv # calls[d].inv
         /\ calls[c].op \in ClientOps
         /\ calls[d].op \in ClientOps
         /\ calls[c].via = calls[d].via
    /\ \E a \in DOMAIN calls : calls[a].op = "put_acl"

====
